---- MODULE Spec2Model ----
(***************************************************************************)
(* The karl2d Web Audio engine (box2d-platformer/audio.js): the source     *)
(* registry, the bus table, the instance table with its pause/resume       *)
(* rebuild, the deferred play queue with its retry sweep, and the          *)
(* finished-event queue.                                                   *)
(*                                                                         *)
(* Every operation of the engine is an operator from the engine state (a   *)
(* record s) to the engine state after the call, and an action of the      *)
(* specification applies it to the current state.  JavaScript objects are  *)
(* a heap: s.objs holds the instance objects (the onended closures keep    *)
(* them alive after the table entry is deleted), s.nodes the               *)
(* AudioBufferSourceNodes, s.gains the gain value of the master and bus    *)
(* GainNodes.  The host Web Audio API is modelled by what the code relies  *)
(* on: a source node that was started dispatches one `ended` event, as a   *)
(* later task, once it stops playing, because its buffer is exhausted or   *)
(* because stop() was called on it.                                        *)
(*                                                                         *)
(* The single-track music variant (unnamed/part_000) is a second engine    *)
(* object with its own state m: the context, currentMusic,                 *)
(* currentMusicSource and the playMusic calls suspended at an await.       *)
(***************************************************************************)
EXTENDS Integers, Sequences, FiniteSets, TLC

\* ---------------------------------------------------------------- bounds
MaxClock == 2
MaxLoads == 1
MaxPlays == 1
MaxInits == 2
MaxResumes == 1
MaxRequests == 2
MaxBuses == 2
MaxBusPlays == 2
MaxControlPlays == 2
MaxSets == 1
MaxMusicCalls == 3
MaxMusicInits == 2

\* ------------------------------------------------------ program constants
MaxRetries == 10
FirstBusHandle == 2
MasterBus == 1

\* ---------------------------------------------------------------- inputs
Durations == {2}
Delays == {0}
Pitches == {1}
Volumes == {1}
Pans == {0}
SourceArgs == 1..MaxLoads

VARIABLES
  initialized,        \* this.initialized
  audioContext,       \* this.audioContext: 0 (null) or the number of the context
  currentTime,        \* audioContext.currentTime
  masterGain,         \* this.masterGain: 0 (null) or a gain node
  nextSourceHandle,
  nextInstanceHandle,
  nextBusHandle,
  sources,            \* handle -> [duration]
  instances,          \* handle -> instance object (a key of objs)
  buses,              \* handle -> [gainNode, volume, muted]
  finishedCallbacks,  \* sequence of instance handles
  pendingPlays,       \* sequence of parked play requests
  timers,             \* outstanding setTimeout(processPendingPlays) callbacks
  decoding,           \* decodeAudioData promises in flight: {[handle, ctx]}
  objs,               \* heap of instance objects
  nodes,              \* heap of buffer source nodes
  gains,              \* gain node -> gain.value (master and bus nodes)
  contexts,           \* history: number of AudioContexts constructed so far
  resumes,            \* history: number of rebuilds done by resumeAudio so far
  sets,               \* history: number of setter calls that changed an instance
  issued,             \* history, per category: how many handles were handed out
                      \* (n) and the greatest of them (max)
  finishedWhy,        \* history, parallel to finishedCallbacks: why the source
                      \* node whose hook pushed the handle had stopped playing
  abandoned,          \* history: handles of the requests the sweep gave up on
                      \* since the engine was last shut down
  retired,            \* history: handles whose table entry was deleted by stop,
                      \* stop_all or a completion hook since the last shutdown
  musicInitialized,   \* music variant: this.initialized
  musicContext,       \* music variant: this.audioContext, 0 (null) or its number
  musicContextState,  \* music variant: audioContext.state
  currentMusic,       \* 0 (null) or the buffer, named by the call that decoded it
  currentMusicSource, \* 0 (null) or a music source node
  musicNodes,         \* heap of music source nodes
  musicCalls,         \* playMusic calls suspended at an await
  musicContexts,      \* history: number of music AudioContexts constructed
  musicIssued         \* history: number of playMusic calls that went past the
                      \* test of initialized

vars == <<initialized, audioContext, currentTime, masterGain, nextSourceHandle,
          nextInstanceHandle, nextBusHandle, sources, instances, buses,
          finishedCallbacks, pendingPlays, timers, decoding, objs, nodes, gains,
          contexts, resumes, sets, issued, finishedWhy,
          abandoned, retired, musicInitialized, musicContext, musicContextState,
          currentMusic, currentMusicSource, musicNodes, musicCalls, musicContexts,
          musicIssued>>

\* The variables of the single-track music variant.
musicVars == <<musicInitialized, musicContext, musicContextState, currentMusic,
               currentMusicSource, musicNodes, musicCalls, musicContexts,
               musicIssued>>

\* The variables of the instance engine.
engineVars == <<initialized, audioContext, currentTime, masterGain, nextSourceHandle,
                nextInstanceHandle, nextBusHandle, sources, instances, buses,
                finishedCallbacks, pendingPlays, timers, decoding, objs, nodes, gains,
                contexts, resumes, sets, issued, finishedWhy, abandoned, retired>>

\* The engine state as one value.
S ==
  [initialized |-> initialized, audioContext |-> audioContext,
   currentTime |-> currentTime, masterGain |-> masterGain,
   nextSourceHandle |-> nextSourceHandle, nextInstanceHandle |-> nextInstanceHandle,
   nextBusHandle |-> nextBusHandle, sources |-> sources, instances |-> instances,
   buses |-> buses, finishedCallbacks |-> finishedCallbacks,
   pendingPlays |-> pendingPlays, timers |-> timers, decoding |-> decoding,
   objs |-> objs, nodes |-> nodes, gains |-> gains, contexts |-> contexts,
   resumes |-> resumes, sets |-> sets, issued |-> issued,
   finishedWhy |-> finishedWhy, abandoned |-> abandoned, retired |-> retired]

\* The step to state t.
Becomes(t) ==
  /\ initialized' = t.initialized
  /\ audioContext' = t.audioContext
  /\ currentTime' = t.currentTime
  /\ masterGain' = t.masterGain
  /\ nextSourceHandle' = t.nextSourceHandle
  /\ nextInstanceHandle' = t.nextInstanceHandle
  /\ nextBusHandle' = t.nextBusHandle
  /\ sources' = t.sources
  /\ instances' = t.instances
  /\ buses' = t.buses
  /\ finishedCallbacks' = t.finishedCallbacks
  /\ pendingPlays' = t.pendingPlays
  /\ timers' = t.timers
  /\ decoding' = t.decoding
  /\ objs' = t.objs
  /\ nodes' = t.nodes
  /\ gains' = t.gains
  /\ contexts' = t.contexts
  /\ resumes' = t.resumes
  /\ sets' = t.sets
  /\ issued' = t.issued
  /\ finishedWhy' = t.finishedWhy
  /\ abandoned' = t.abandoned
  /\ retired' = t.retired
  /\ UNCHANGED musicVars

\* The state of the music variant as one value.
M ==
  [initialized |-> musicInitialized, audioContext |-> musicContext,
   state |-> musicContextState, currentMusic |-> currentMusic,
   currentMusicSource |-> currentMusicSource, nodes |-> musicNodes,
   calls |-> musicCalls, contexts |-> musicContexts, issued |-> musicIssued]

\* The step of the music variant to state t.
MusicBecomes(t) ==
  /\ musicInitialized' = t.initialized
  /\ musicContext' = t.audioContext
  /\ musicContextState' = t.state
  /\ currentMusic' = t.currentMusic
  /\ currentMusicSource' = t.currentMusicSource
  /\ musicNodes' = t.nodes
  /\ musicCalls' = t.calls
  /\ musicContexts' = t.contexts
  /\ musicIssued' = t.issued
  /\ UNCHANGED engineVars

\* ---------------------------------------------------------------- helpers
Min(a, b) == IF a <= b THEN a ELSE b

Max(a, b) == IF a >= b THEN a ELSE b

\* JavaScript's %: the result takes the sign of the dividend.
JsMod(a, b) == IF a >= 0 THEN a % b ELSE 0 - ((0 - a) % b)

\* Map.delete
MapDelete(m, k) == [x \in (DOMAIN m) \ {k} |-> m[x]]

\* Map.set
MapSet(m, k, v) == [x \in (DOMAIN m) \cup {k} |-> IF x = k THEN v ELSE m[x]]

\* A fresh reference into a heap: the least key not in use.
NewRef(heap) == CHOOSE k \in 1..(Cardinality(DOMAIN heap) + 1) : k \notin DOMAIN heap

EmptyMap == [x \in {} |-> 0]

Null == <<>>

NoneIssued == [n |-> 0, max |-> 0]

Issue(i, handle) == [n |-> i.n + 1, max |-> Max(i.max, handle)]

\* ------------------------------------------------------- host audio nodes
\* AudioBufferSourceNode.start(when, offset) on a node bound to a buffer of
\* length dur.  A negative offset raises RangeError and the node never starts;
\* an offset at or past the end of a non-looping buffer finishes at once.
HostStart(n, when, offset) ==
  IF offset < 0 THEN n
  ELSE IF ~n.loop /\ offset >= n.dur
    THEN [n EXCEPT !.st = "ending", !.cause = "end", !.when = when, !.pos = n.dur]
    ELSE [n EXCEPT !.st = "active", !.when = when, !.pos = offset % n.dur]

\* AudioBufferSourceNode.stop(): a playing node stops playing and will dispatch
\* `ended`; on a node that has played to its end the call does nothing more; on
\* a node that was never started it raises (and the callers catch).
HostStop(n, by) ==
  IF n.st = "unstarted" THEN n
  ELSE IF n.st = "active"
    THEN [n EXCEPT !.st = "ending", !.cause = by, !.stopCalled = TRUE]
    ELSE [n EXCEPT !.stopCalled = TRUE]

\* Whether start() has succeeded on the node and stop() was not called on it.
StartedNotStopped(n) == n.st # "unstarted" /\ ~n.stopCalled

\* One unit of engine-clock time for a node: it plays once its start time is
\* reached, at its playback rate, wrapping when looping and finishing otherwise.
HostAdvance(n, now) ==
  IF n.st # "active" \/ now < n.when THEN n
  ELSE IF n.loop THEN [n EXCEPT !.pos = (n.pos + n.rate) % n.dur]
  ELSE IF n.pos + n.rate >= n.dur
    THEN [n EXCEPT !.pos = n.dur, !.st = "ending", !.cause = "end"]
    ELSE [n EXCEPT !.pos = n.pos + n.rate]

\* AudioContext.close(): nodes of the context stop being rendered.
HostClose(n) == IF n.st = "active" THEN [n EXCEPT !.st = "closed"] ELSE n

\* Garbage collection of the heaps: an instance object stays while the table
\* holds it or a node that may still run its completion hook refers to it; a
\* node stays while it may still play or dispatch `ended`, or while a kept
\* instance object holds it as its sourceNode; a gain node stays while the
\* engine, a bus or a kept instance object holds it.
Collect(s) ==
  LET pendingNodes == {n \in DOMAIN s.nodes : s.nodes[n].st \in {"active", "ending"}}
      keptObjs == {s.instances[h] : h \in DOMAIN s.instances}
                    \cup {s.nodes[n].obj : n \in pendingNodes}
      keptNodes == pendingNodes \cup {s.objs[o].sourceNode : o \in keptObjs}
      keptGains == ({s.masterGain} \cup {s.buses[b].gainNode : b \in DOMAIN s.buses}
                      \cup {s.objs[o].outputNode : o \in keptObjs}) \cap DOMAIN s.gains
  IN [s EXCEPT !.objs = [o \in keptObjs |-> s.objs[o]],
               !.nodes = [n \in keptNodes |-> s.nodes[n]],
               !.gains = [g \in keptGains |-> s.gains[g]]]

\* ------------------------------------------------------------- internals
\* The output node as it would be if every instance were sent to the master.
OutputNodeMasterOnly(s, busHandle) == s.masterGain

\* The output node of a new instance: the bus's gain node, or the master gain.
OutputNode(s, busHandle) ==
  IF busHandle > MasterBus /\ busHandle \in DOMAIN s.buses
    THEN s.buses[busHandle].gainNode
    ELSE s.masterGain

PannerNodeOf(p) == IF ~p.isSpatial /\ p.pan # 0 THEN <<p.pan>> ELSE Null

SpatialPannerOf(p) ==
  IF p.isSpatial THEN <<p.posX, p.posY, p.minDistance, p.maxDistance>> ELSE Null

\* The stage a new source node is connected to.
FirstStage(p) ==
  IF p.isSpatial THEN "spatial" ELSE IF p.pan # 0 THEN "stereo" ELSE "gain"

\* The stage resumeAudio connects the rebuilt source node to.
ResumeStage(instance) ==
  IF instance.spatialPanner # Null THEN "spatial"
  ELSE IF instance.pannerNode # Null THEN "stereo"
  ELSE "gain"

\* playAudioInternal: builds the source node and the instance object, stores
\* the instance under the request's handle, installs the completion hook and
\* starts the node.  With no audio context the first createBufferSource throws
\* and the catch swallows it.  (pushes is history: how often a completion hook
\* of this object has pushed its handle to finishedCallbacks; created is
\* history: the isSpatial and pan arguments the instance was created with.)
playAudioInternal(s, params, source) ==
  IF s.audioContext = 0 THEN s
  ELSE
    LET o == NewRef(s.objs)
        n == NewRef(s.nodes)
        startTime == s.currentTime + params.delay
        sourceNode == [obj |-> o, handle |-> params.handle, dur |-> source.duration,
                       loop |-> params.loop, rate |-> params.pitch, when |-> 0,
                       pos |-> 0, st |-> "unstarted", cause |-> "none",
                       via |-> FirstStage(params), stopCalled |-> FALSE]
        instance == [sourceHandle |-> params.sourceHandle,
                     sourceNode |-> n,
                     gainNode |-> params.volume,
                     pannerNode |-> PannerNodeOf(params),
                     spatialPanner |-> SpatialPannerOf(params),
                     outputNode |-> OutputNode(s, params.busHandle),
                     busHandle |-> params.busHandle,
                     startTime |-> startTime,
                     pauseTime |-> 0,
                     paused |-> FALSE,
                     stopped |-> FALSE,
                     loop |-> params.loop,
                     volume |-> params.volume,
                     pitch |-> params.pitch,
                     hasCallback |-> params.hasCallback,
                     pushes |-> 0,
                     created |-> [isSpatial |-> params.isSpatial, pan |-> params.pan]]
    IN [s EXCEPT !.instances = MapSet(s.instances, params.handle, o),
                 !.objs = MapSet(s.objs, o, instance),
                 !.nodes = MapSet(s.nodes, n, HostStart(sourceNode, startTime, 0))]

\* stopInstance on the instance object o.
stopInstance(s, o) ==
  IF s.objs[o].stopped THEN s
  ELSE [s EXCEPT !.objs[o].stopped = TRUE,
                 !.nodes[s.objs[o].sourceNode] = HostStop(@, "stop")]

\* stopInstance for every instance object of the set os.
RECURSIVE StopEach(_, _)
StopEach(s, os) ==
  IF os = {} THEN s
  ELSE LET o == CHOOSE x \in os : TRUE IN StopEach(stopInstance(s, o), os \ {o})

\* ------------------------------------------------------------------ Init
Init ==
  /\ initialized = FALSE
  /\ audioContext = 0
  /\ currentTime = 0
  /\ masterGain = 0
  /\ nextSourceHandle = 1
  /\ nextInstanceHandle = 1
  /\ nextBusHandle = FirstBusHandle
  /\ sources = EmptyMap
  /\ instances = EmptyMap
  /\ buses = EmptyMap
  /\ finishedCallbacks = <<>>
  /\ pendingPlays = <<>>
  /\ timers = 0
  /\ decoding = {}
  /\ objs = EmptyMap
  /\ nodes = EmptyMap
  /\ gains = EmptyMap
  /\ contexts = 0
  /\ resumes = 0
  /\ sets = 0
  /\ issued = [source |-> NoneIssued, instance |-> NoneIssued, bus |-> NoneIssued]
  /\ finishedWhy = <<>>
  /\ abandoned = {}
  /\ retired = {}
  /\ musicInitialized = FALSE
  /\ musicContext = 0
  /\ musicContextState = "closed"
  /\ currentMusic = 0
  /\ currentMusicSource = 0
  /\ musicNodes = EmptyMap
  /\ musicCalls = {}
  /\ musicContexts = 0
  /\ musicIssued = 0

\* ------------------------------------------------------------- lifecycle
\* init(): a new AudioContext (its clock starts at 0), the master gain node,
\* bus 1.  On an initialized engine it changes nothing.
init(s) ==
  IF s.initialized THEN s
  ELSE LET g == NewRef(s.gains) IN
       Collect([s EXCEPT !.audioContext = s.contexts + 1,
                         !.contexts = s.contexts + 1,
                         !.currentTime = 0,
                         !.masterGain = g,
                         !.gains = MapSet(s.gains, g, 1),
                         !.buses = MapSet(s.buses, MasterBus,
                                          [gainNode |-> g, volume |-> 1, muted |-> FALSE]),
                         !.initialized = TRUE])

\* init() when the host throws inside its try block: at the AudioContext
\* constructor ("context") nothing has been assigned yet; at the listener setup
\* ("listener") the context, the master gain and bus 1 are already in place.
\* Either way the catch returns false and initialized stays false.
InitFailures == {"context", "listener"}

initFails(s, at) ==
  IF s.initialized \/ at = "context" THEN s
  ELSE [init(s) EXCEPT !.initialized = FALSE]

\* shutdown(): stops every instance, clears the three tables and the finished
\* queue, resets the handle counters, closes the context.  pendingPlays, the
\* sweep timer and the decodes in flight are left as they are.
shutdown(s) ==
  IF ~s.initialized THEN s
  ELSE
    LET t == StopEach(s, {s.instances[h] : h \in DOMAIN s.instances}) IN
    Collect([t EXCEPT !.nodes = [n \in DOMAIN t.nodes |-> HostClose(t.nodes[n])],
                      !.sources = EmptyMap,
                      !.instances = EmptyMap,
                      !.buses = EmptyMap,
                      !.finishedCallbacks = <<>>,
                      !.finishedWhy = <<>>,
                      !.abandoned = {},
                      !.retired = {},
                      !.nextSourceHandle = 1,
                      !.nextInstanceHandle = 1,
                      !.nextBusHandle = FirstBusHandle,
                      !.audioContext = 0,
                      !.currentTime = 0,
                      !.initialized = FALSE])

\* ------------------------------------------------------ source management
\* _js_load_audio: initializes the engine if need be, reserves the handle at
\* once and decodes in the background.
jsLoadAudio(s) ==
  LET t == init(s) IN
  [t EXCEPT !.nextSourceHandle = t.nextSourceHandle + 1,
            !.decoding = t.decoding \cup {[handle |-> t.nextSourceHandle,
                                           ctx |-> t.audioContext]},
            !.issued.source = Issue(@, t.nextSourceHandle)]

jsLoadAudioResult(s) == init(s).nextSourceHandle

\* The decode promise d resolves with a buffer of length dur.
decodeResolved(s, d, dur) ==
  [s EXCEPT !.decoding = s.decoding \ {d},
            !.sources = MapSet(s.sources, d.handle, [duration |-> dur])]

\* The decode promise d rejects: logged, the handle never resolves.
decodeRejected(s, d) == [s EXCEPT !.decoding = s.decoding \ {d}]

destroyAudio(s, sourceHandle) == [s EXCEPT !.sources = MapDelete(s.sources, sourceHandle)]

getAudioDuration(s, sourceHandle) ==
  IF sourceHandle \in DOMAIN s.sources THEN s.sources[sourceHandle].duration ELSE 0

\* --------------------------------------------------------------- playback
\* What playAudio returns for request p.
playAudioResult(s, p) == IF ~s.initialized THEN 0 ELSE s.nextInstanceHandle

\* playAudio as it would be if every parked request armed a timer of its own.
playAudioAlwaysArms(s, p) ==
  IF ~s.initialized THEN s
  ELSE
    LET handle == s.nextInstanceHandle
        t == [s EXCEPT !.nextInstanceHandle = handle + 1,
                       !.issued.instance = Issue(@, handle)]
    IN IF p.sourceHandle \notin DOMAIN s.sources
         THEN [t EXCEPT !.pendingPlays =
                          Append(s.pendingPlays, [handle |-> handle, retries |-> 0] @@ p),
                        !.timers = s.timers + 1]
         ELSE Collect(playAudioInternal(t, [handle |-> handle] @@ p,
                                        s.sources[p.sourceHandle]))

\* playAudio as it would be without its test of initialized.
playAudioUnguarded(s, p) ==
  LET handle == s.nextInstanceHandle
      t == [s EXCEPT !.nextInstanceHandle = handle + 1,
                     !.issued.instance = Issue(@, handle)]
  IN IF p.sourceHandle \notin DOMAIN s.sources
       THEN LET q == Append(s.pendingPlays, [handle |-> handle, retries |-> 0] @@ p) IN
            [t EXCEPT !.pendingPlays = q,
                      !.timers = IF Len(q) = 1 THEN s.timers + 1 ELSE s.timers]
       ELSE Collect(playAudioInternal(t, [handle |-> handle] @@ p,
                                      s.sources[p.sourceHandle]))

\* playAudio: parks the request when the source is not in the registry (and
\* arms the sweep timer if the queue was empty), plays it at once otherwise.
playAudio(s, p) ==
  IF ~s.initialized THEN s
  ELSE
    LET handle == s.nextInstanceHandle
        t == [s EXCEPT !.nextInstanceHandle = handle + 1,
                       !.issued.instance = Issue(@, handle)]
    IN IF p.sourceHandle \notin DOMAIN s.sources
         THEN LET q == Append(s.pendingPlays, [handle |-> handle, retries |-> 0] @@ p) IN
              [t EXCEPT !.pendingPlays = q,
                        !.timers = IF Len(q) = 1 THEN s.timers + 1 ELSE s.timers]
         ELSE Collect(playAudioInternal(t, [handle |-> handle] @@ p,
                                        s.sources[p.sourceHandle]))

stopAudio(s, instanceHandle) ==
  IF instanceHandle \notin DOMAIN s.instances THEN s
  ELSE LET t == stopInstance(s, s.instances[instanceHandle]) IN
       Collect([t EXCEPT !.instances = MapDelete(s.instances, instanceHandle),
                         !.retired = @ \cup {instanceHandle}])

\* pauseAudio: records the elapsed time and stops the source node.
pauseAudio(s, instanceHandle) ==
  IF \/ instanceHandle \notin DOMAIN s.instances
     \/ s.objs[s.instances[instanceHandle]].paused
     \/ s.objs[s.instances[instanceHandle]].stopped
  THEN s
  ELSE
    LET o == s.instances[instanceHandle] IN
    [s EXCEPT !.objs[o].paused = TRUE,
              !.objs[o].pauseTime = s.currentTime - s.objs[o].startTime,
              !.nodes[s.objs[o].sourceNode] = HostStop(@, "pause")]

\* Whether resumeAudio gets past its two early returns.
resumeRebuilds(s, instanceHandle) ==
  /\ instanceHandle \in DOMAIN s.instances
  /\ s.objs[s.instances[instanceHandle]].paused
  /\ ~s.objs[s.instances[instanceHandle]].stopped
  /\ s.objs[s.instances[instanceHandle]].sourceHandle \in DOMAIN s.sources

\* resumeAudio as it would be if the rebuilt source node were connected
\* straight to the gain stage.
resumeAudioStraightToGain(s, instanceHandle) ==
  IF ~resumeRebuilds(s, instanceHandle) THEN s
  ELSE
    LET o == s.instances[instanceHandle]
        instance == s.objs[o]
        n == NewRef(s.nodes)
        newSourceNode == [obj |-> o, handle |-> instanceHandle,
                          dur |-> s.sources[instance.sourceHandle].duration,
                          loop |-> instance.loop, rate |-> instance.pitch, when |-> 0,
                          pos |-> 0, st |-> "unstarted", cause |-> "none",
                          via |-> "gain", stopCalled |-> FALSE]
    IN Collect([s EXCEPT !.objs[o].sourceNode = n,
                         !.objs[o].paused = FALSE,
                         !.objs[o].startTime = s.currentTime - instance.pauseTime,
                         !.nodes = MapSet(s.nodes, n,
                                          HostStart(newSourceNode, 0, instance.pauseTime)),
                         !.resumes = s.resumes + 1])

\* resumeAudio: a new source node on the source's buffer, started at the recorded
\* offset, with its own completion hook; the instance object is updated in place.
resumeAudio(s, instanceHandle) ==
  IF ~resumeRebuilds(s, instanceHandle) THEN s
  ELSE
    LET o == s.instances[instanceHandle]
        instance == s.objs[o]
        n == NewRef(s.nodes)
        newSourceNode == [obj |-> o, handle |-> instanceHandle,
                          dur |-> s.sources[instance.sourceHandle].duration,
                          loop |-> instance.loop, rate |-> instance.pitch, when |-> 0,
                          pos |-> 0, st |-> "unstarted", cause |-> "none",
                          via |-> ResumeStage(instance), stopCalled |-> FALSE]
    IN Collect([s EXCEPT !.objs[o].sourceNode = n,
                         !.objs[o].paused = FALSE,
                         !.objs[o].startTime = s.currentTime - instance.pauseTime,
                         !.nodes = MapSet(s.nodes, n,
                                          HostStart(newSourceNode, 0, instance.pauseTime)),
                         !.resumes = s.resumes + 1])

\* The handles stopAllAudio stops and deletes.
stopAllMatches(s, busHandle) ==
  {h \in DOMAIN s.instances : busHandle = 0 \/ s.objs[s.instances[h]].busHandle = busHandle}

stopAllAudio(s, busHandle) ==
  LET hs == stopAllMatches(s, busHandle)
      t == StopEach(s, {s.instances[h] : h \in hs})
  IN Collect([t EXCEPT !.instances = [h \in (DOMAIN s.instances) \ hs |-> s.instances[h]],
                       !.retired = @ \cup hs])

\* ---------------------------------------------------------------- queries
isAudioPlaying(s, instanceHandle) ==
  /\ instanceHandle \in DOMAIN s.instances
  /\ ~s.objs[s.instances[instanceHandle]].paused
  /\ ~s.objs[s.instances[instanceHandle]].stopped

isAudioPaused(s, instanceHandle) ==
  /\ instanceHandle \in DOMAIN s.instances
  /\ s.objs[s.instances[instanceHandle]].paused

getAudioTime(s, instanceHandle) ==
  IF instanceHandle \notin DOMAIN s.instances THEN 0
  ELSE
    LET instance == s.objs[s.instances[instanceHandle]]
        elapsed == s.currentTime - instance.startTime
        known == instance.sourceHandle \in DOMAIN s.sources
    IN IF instance.paused THEN instance.pauseTime
       ELSE IF instance.stopped THEN 0
       ELSE IF known /\ instance.loop
         THEN JsMod(elapsed, s.sources[instance.sourceHandle].duration)
         ELSE Min(elapsed, IF known THEN s.sources[instance.sourceHandle].duration
                                    ELSE elapsed)

\* ------------------------------------------------------- host event loop
\* The engine clock advances by one unit; every started node plays on.
tick(s) ==
  [s EXCEPT !.currentTime = s.currentTime + 1,
            !.nodes = [n \in DOMAIN s.nodes |-> HostAdvance(s.nodes[n], s.currentTime)]]

\* Whether the completion hook of node n, run now, takes its branch.
hookFires(s, n) ==
  /\ ~s.objs[s.nodes[n].obj].stopped
  /\ ~s.objs[s.nodes[n].obj].loop

\* The `ended` event of node n is dispatched: its onended hook runs (installed
\* by playAudioInternal or by resumeAudio; both close over the instance object
\* and the handle).
onended(s, n) ==
  LET o == s.nodes[n].obj
      handle == s.nodes[n].handle
      done == [s EXCEPT !.nodes[n].st = "done"]
  IN IF hookFires(s, n)
       THEN LET pushed ==
                  IF s.objs[o].hasCallback
                    THEN [done EXCEPT
                            !.finishedCallbacks = Append(s.finishedCallbacks, handle),
                            !.finishedWhy = Append(s.finishedWhy, s.nodes[n].cause),
                            !.objs[o].pushes = @ + 1]
                    ELSE done
            IN Collect([pushed EXCEPT
                          !.instances = MapDelete(s.instances, handle),
                          !.retired = @ \cup ({handle} \cap DOMAIN s.instances)])
       ELSE Collect(done)

\* ------------------------------------------------------- callback polling
pollFinishedCallbackResult(s) ==
  IF Len(s.finishedCallbacks) = 0 THEN 0 ELSE Head(s.finishedCallbacks)

\* pollFinishedCallback as it would be with pop() in place of shift().
pollFinishedCallbackPop(s) ==
  IF Len(s.finishedCallbacks) = 0 THEN s
  ELSE [s EXCEPT !.finishedCallbacks = SubSeq(@, 1, Len(@) - 1),
                 !.finishedWhy = SubSeq(@, 1, Len(@) - 1)]

pollFinishedCallback(s) ==
  IF Len(s.finishedCallbacks) = 0 THEN s
  ELSE [s EXCEPT !.finishedCallbacks = Tail(s.finishedCallbacks),
                 !.finishedWhy = Tail(s.finishedWhy)]

\* ---------------------------------------------------------- deferred plays
\* The loop of processPendingPlays over the rest q of the queue, from the
\* accumulator a = [s, stillPending]: a request whose source is ready is
\* played, any other is retried or, at the ceiling, given up.
RECURSIVE SweepFrom(_, _)
SweepFrom(a, q) ==
  IF q = <<>> THEN a
  ELSE
    LET pending == Head(q) IN
    IF pending.sourceHandle \in DOMAIN a.s.sources
      THEN SweepFrom([a EXCEPT !.s = playAudioInternal(a.s, pending,
                                       a.s.sources[pending.sourceHandle])], Tail(q))
      ELSE LET retried == [pending EXCEPT !.retries = pending.retries + 1] IN
           IF retried.retries < MaxRetries
             THEN SweepFrom([a EXCEPT !.stillPending = Append(@, retried)], Tail(q))
             ELSE SweepFrom([a EXCEPT !.s.abandoned = @ \cup {pending.handle}], Tail(q))

\* The sweep timer fires: processPendingPlays, re-armed while requests remain.
processPendingPlays(s) ==
  LET a == SweepFrom([s |-> s, stillPending |-> <<>>], s.pendingPlays) IN
  Collect([a.s EXCEPT !.pendingPlays = a.stillPending,
                      !.timers = IF Len(a.stillPending) > 0 THEN s.timers ELSE s.timers - 1])

\* ----------------------------------------------------------- live control
\* setAudioVolume as it would be if a handle that is not in the instance table
\* were looked up among the parked requests.
setAudioVolumeOrPending(s, instanceHandle, volume) ==
  IF instanceHandle \notin DOMAIN s.instances
    THEN [s EXCEPT !.pendingPlays =
            [i \in DOMAIN s.pendingPlays |->
               IF s.pendingPlays[i].handle = instanceHandle
                 THEN [s.pendingPlays[i] EXCEPT !.volume = volume]
                 ELSE s.pendingPlays[i]]]
    ELSE [s EXCEPT !.objs[s.instances[instanceHandle]].volume = volume,
                   !.objs[s.instances[instanceHandle]].gainNode = volume]

setAudioVolume(s, instanceHandle, volume) ==
  IF instanceHandle \notin DOMAIN s.instances THEN s
  ELSE [s EXCEPT !.objs[s.instances[instanceHandle]].volume = volume,
                 !.objs[s.instances[instanceHandle]].gainNode = volume]

setAudioPan(s, instanceHandle, pan) ==
  IF \/ instanceHandle \notin DOMAIN s.instances
     \/ s.objs[s.instances[instanceHandle]].pannerNode = Null
  THEN s
  ELSE [s EXCEPT !.objs[s.instances[instanceHandle]].pannerNode = <<pan>>]

setAudioPitch(s, instanceHandle, pitch) ==
  IF instanceHandle \notin DOMAIN s.instances THEN s
  ELSE LET o == s.instances[instanceHandle] IN
       [s EXCEPT !.objs[o].pitch = pitch,
                 !.nodes[s.objs[o].sourceNode].rate = pitch]

setAudioLooping(s, instanceHandle, loop) ==
  IF instanceHandle \notin DOMAIN s.instances THEN s
  ELSE LET o == s.instances[instanceHandle] IN
       [s EXCEPT !.objs[o].loop = loop,
                 !.nodes[s.objs[o].sourceNode].loop = loop]

setAudioPosition(s, instanceHandle, x, y) ==
  IF \/ instanceHandle \notin DOMAIN s.instances
     \/ s.objs[s.instances[instanceHandle]].spatialPanner = Null
  THEN s
  ELSE LET o == s.instances[instanceHandle] IN
       [s EXCEPT !.objs[o].spatialPanner =
                    <<x, y, s.objs[o].spatialPanner[3], s.objs[o].spatialPanner[4]>>]

\* ------------------------------------------------------------------ buses
createAudioBusResult(s) == IF ~s.initialized THEN 0 ELSE s.nextBusHandle

createAudioBus(s) ==
  IF ~s.initialized THEN s
  ELSE LET g == NewRef(s.gains) IN
       [s EXCEPT !.nextBusHandle = s.nextBusHandle + 1,
                 !.gains = MapSet(s.gains, g, 1),
                 !.buses = MapSet(s.buses, s.nextBusHandle,
                                  [gainNode |-> g, volume |-> 1, muted |-> FALSE]),
                 !.issued.bus = Issue(@, s.nextBusHandle)]

\* destroyAudioBus as it would be without its guard for the main bus.
destroyAudioBusUnguarded(s, busHandle) ==
  IF busHandle \notin DOMAIN s.buses THEN s
  ELSE Collect([s EXCEPT !.buses = MapDelete(s.buses, busHandle)])

destroyAudioBus(s, busHandle) ==
  IF busHandle <= 1 \/ busHandle \notin DOMAIN s.buses THEN s
  ELSE Collect([s EXCEPT !.buses = MapDelete(s.buses, busHandle)])

\* setAudioBusVolume as it would be if it wrote the gain whether muted or not.
setAudioBusVolumeIgnoringMute(s, busHandle, volume) ==
  IF busHandle \notin DOMAIN s.buses THEN s
  ELSE [s EXCEPT !.buses[busHandle].volume = volume,
                 !.gains[s.buses[busHandle].gainNode] = volume]

setAudioBusVolume(s, busHandle, volume) ==
  IF busHandle \notin DOMAIN s.buses THEN s
  ELSE LET bus == s.buses[busHandle] IN
       [s EXCEPT !.buses[busHandle].volume = volume,
                 !.gains[bus.gainNode] = IF ~bus.muted THEN volume ELSE @]

getAudioBusVolume(s, busHandle) ==
  IF busHandle \notin DOMAIN s.buses THEN 1 ELSE s.buses[busHandle].volume

\* setAudioBusMuted as it would be if muting were done by zeroing the volume.
setAudioBusMutedByVolume(s, busHandle, muted) ==
  IF busHandle \notin DOMAIN s.buses THEN s
  ELSE LET bus == s.buses[busHandle]
           volume == IF muted THEN 0 ELSE bus.volume
       IN [s EXCEPT !.buses[busHandle].muted = muted,
                    !.buses[busHandle].volume = volume,
                    !.gains[bus.gainNode] = volume]

setAudioBusMuted(s, busHandle, muted) ==
  IF busHandle \notin DOMAIN s.buses THEN s
  ELSE LET bus == s.buses[busHandle] IN
       [s EXCEPT !.buses[busHandle].muted = muted,
                 !.gains[bus.gainNode] = IF muted THEN 0 ELSE bus.volume]

isAudioBusMuted(s, busHandle) ==
  IF busHandle \notin DOMAIN s.buses THEN FALSE ELSE s.buses[busHandle].muted

\* The gain value of bus busHandle's output node.
busGain(s, busHandle) == s.gains[s.buses[busHandle].gainNode]

\* The bus instance instanceHandle is heard through: the master bus when its
\* output node is the master gain, the bus whose gain node is its output node
\* otherwise, 0 when that bus has been destroyed.
AudibleBus(s, instanceHandle) ==
  LET out == s.objs[s.instances[instanceHandle]].outputNode
      through == {b \in DOMAIN s.buses : s.buses[b].gainNode = out}
  IN IF out = s.masterGain THEN MasterBus
     ELSE IF through = {} THEN 0
     ELSE CHOOSE b \in through : TRUE

\* ------------------------------------------------- single-track music
\* Garbage collection of the music nodes: a node stays while it may still play
\* or dispatch `ended`, or while currentMusicSource holds it.
MusicCollect(m) ==
  LET kept == {n \in DOMAIN m.nodes :
                 m.nodes[n].st \in {"active", "ending"} \/ n = m.currentMusicSource}
  IN [m EXCEPT !.nodes = [n \in kept |-> m.nodes[n]]]

\* The states a new AudioContext can be in: suspended until a user gesture
\* where the browser's autoplay policy says so, running otherwise.
NewContextStates == {"suspended", "running"}

\* init() of the music variant, the host creating the context in state st.
musicInit(m, st) ==
  IF m.initialized THEN m
  ELSE [m EXCEPT !.audioContext = m.contexts + 1,
                 !.contexts = m.contexts + 1,
                 !.state = st,
                 !.initialized = TRUE]

\* The click / keydown / touchstart listener init() installs.
musicGesture(m) ==
  IF m.audioContext # 0 /\ m.state = "suspended" THEN [m EXCEPT !.state = "running"]
  ELSE m

\* stopMusic: stops the node currentMusicSource refers to, if any, and clears
\* both references.
stopMusic(m) ==
  LET stopped == IF m.currentMusicSource # 0
                   THEN [m EXCEPT !.nodes[m.currentMusicSource] = HostStop(@, "stop"),
                                  !.currentMusicSource = 0]
                   ELSE m
  IN MusicCollect([stopped EXCEPT !.currentMusic = 0])

\* shutdown() of the music variant.
musicShutdown(m) ==
  IF ~m.initialized THEN m
  ELSE LET t == stopMusic(m) IN
       MusicCollect([t EXCEPT !.nodes = [n \in DOMAIN t.nodes |-> HostClose(t.nodes[n])],
                              !.audioContext = 0,
                              !.state = "closed",
                              !.initialized = FALSE])

\* playMusic from its stopMusic call to the await of the decode: the call is
\* suspended there, unless decodeAudioData finds the engine not initialized and
\* returns null at once.
playMusicStopsAndDecodes(m, call) ==
  LET t == stopMusic(m) IN
  IF ~t.initialized THEN t
  ELSE [t EXCEPT !.calls = @ \cup {[call EXCEPT !.pc = "decode"]}]

\* playMusic(data, loop, delaySeconds) up to its first await: on a suspended
\* context the await of resume(), otherwise the await of the decode.
playMusic(m, loop) ==
  IF ~m.initialized THEN m
  ELSE
    LET call == [id |-> m.issued + 1, loop |-> loop, ctx |-> m.audioContext,
                 pc |-> "resume"]
        t == [m EXCEPT !.issued = m.issued + 1]
    IN IF m.state = "suspended"
         THEN [t EXCEPT !.calls = @ \cup {call}]
         ELSE playMusicStopsAndDecodes(t, call)

\* The resume() promise of a suspended call settles: rejected if the context
\* was closed meanwhile (the call ends there), resolved otherwise (the context
\* runs and the call goes on to stopMusic and the decode).
playMusicResumed(m, call) ==
  LET t == [m EXCEPT !.calls = @ \ {call}] IN
  IF call.ctx # m.audioContext THEN t
  ELSE playMusicStopsAndDecodes([t EXCEPT !.state = "running"], call)

\* The decode of a suspended call resolves with a buffer: the call stores it,
\* creates the source node, stores it in currentMusicSource and starts it.
\* With no audio context createBufferSource throws and the catch returns false.
playMusicDecoded(m, call) ==
  LET t == [m EXCEPT !.calls = @ \ {call}, !.currentMusic = call.id] IN
  IF m.audioContext = 0 THEN t
  ELSE LET n == NewRef(m.nodes) IN
       MusicCollect([t EXCEPT !.currentMusicSource = n,
                              !.nodes = MapSet(m.nodes, n,
                                               [loop |-> call.loop, st |-> "active",
                                                cause |-> "none",
                                                stopCalled |-> FALSE])])

\* The decode of a suspended call fails: decodeAudioData returns null and
\* playMusic returns false.
playMusicDecodeFailed(m, call) == [m EXCEPT !.calls = @ \ {call}]

\* The buffer of a playing, non-looping music node comes to its end.
musicTrackEnds(m, n) ==
  IF m.nodes[n].st = "active" /\ ~m.nodes[n].loop
    THEN [m EXCEPT !.nodes[n].st = "ending", !.nodes[n].cause = "end"]
    ELSE m

\* The `ended` event of music node n is dispatched: the hook playMusic
\* installed tests the loop flag of whatever currentMusicSource is now.
musicOnended(m, n) ==
  LET done == [m EXCEPT !.nodes[n].st = "done"] IN
  MusicCollect(IF m.currentMusicSource = 0 \/ ~m.nodes[m.currentMusicSource].loop
                 THEN [done EXCEPT !.currentMusic = 0, !.currentMusicSource = 0]
                 ELSE done)

isMusicPlaying(m) ==
  /\ m.currentMusicSource # 0
  /\ m.audioContext # 0
  /\ m.state = "running"

\* ---------------------------------------------------------- specifications
\* The bounds of a run: how many contexts, loads, plays and rebuilds it may
\* hold, and how far the engine clock runs.
CanInit == initialized \/ contexts < MaxInits
CanLoad == CanInit /\ issued.source.n < MaxLoads
CanPlay == ~initialized \/ issued.instance.n < MaxPlays
CanResume(h) == ~resumeRebuilds(S, h) \/ resumes < MaxResumes
CanTick == audioContext # 0 /\ currentTime < MaxClock

\* The engine runs on one execution context: a call or a host task starts only
\* when no other is running, and runs to its end.
Idle == TRUE

InstanceArgs == 0..(MaxPlays + 1)

\* Play requests: non-spatial, centred, on the master bus.
PlayInputs ==
  [sourceHandle : SourceArgs, busHandle : {1}, volume : Volumes, pan : Pans,
   pitch : Pitches, loop : BOOLEAN, delay : Delays, isSpatial : {FALSE},
   posX : {0}, posY : {0}, minDistance : {1}, maxDistance : {2},
   hasCallback : BOOLEAN]

AudioInit == CanInit /\ Becomes(init(S))
AudioShutdown == Idle /\ Becomes(shutdown(S))
LoadAudio == CanLoad /\ Becomes(jsLoadAudio(S))
DecodeResolved == \E d \in decoding, dur \in Durations : Idle /\ Becomes(decodeResolved(S, d, dur))
DecodeRejected == \E d \in decoding : Idle /\ Becomes(decodeRejected(S, d))
DestroyAudio == \E sh \in SourceArgs : Idle /\ Becomes(destroyAudio(S, sh))
PlayAudio == CanPlay /\ \E p \in PlayInputs : Becomes(playAudio(S, p))
StopAudio == \E h \in InstanceArgs : Idle /\ Becomes(stopAudio(S, h))
PauseAudio == \E h \in InstanceArgs : Idle /\ Becomes(pauseAudio(S, h))
ResumeAudio == \E h \in InstanceArgs : CanResume(h) /\ Becomes(resumeAudio(S, h))
StopAllAudio == \E b \in {0, 1} : Idle /\ Becomes(stopAllAudio(S, b))
Tick == CanTick /\ Becomes(tick(S))
Ended == \E n \in DOMAIN nodes : nodes[n].st = "ending" /\ Becomes(onended(S, n))
PollFinished == Idle /\ Becomes(pollFinishedCallback(S))
SweepTimer == timers > 0 /\ Becomes(processPendingPlays(S))

\* The playback engine: lifecycle, loading, play/stop/pause/resume, the clock,
\* completion hooks, the retry sweep and polling.
Next ==
  \/ AudioInit \/ AudioShutdown \/ LoadAudio \/ DecodeResolved \/ DecodeRejected
  \/ DestroyAudio \/ PlayAudio \/ StopAudio \/ PauseAudio \/ ResumeAudio
  \/ StopAllAudio \/ Tick \/ Ended \/ PollFinished \/ SweepTimer

Spec == Init /\ [][Next]_vars

\* The deferred-play engine: sessions (init/shutdown), loading, play requests
\* for sources that may not be ready, the retry sweep, the clock, completion
\* hooks and polling.  Requests are non-looping with a completion callback, for
\* source handle 1 (the first load of a session) or 2 (never loaded).
RequestSourceArgs == 1..(MaxLoads + 1)

RequestInputs ==
  [sourceHandle : RequestSourceArgs, busHandle : {1}, volume : Volumes, pan : Pans,
   pitch : Pitches, loop : {FALSE}, delay : Delays, isSpatial : {FALSE},
   posX : {0}, posY : {0}, minDistance : {1}, maxDistance : {2},
   hasCallback : {TRUE}]

CanRequest == ~initialized \/ issued.instance.n < MaxRequests

PlayRequest == CanRequest /\ \E p \in RequestInputs : Becomes(playAudio(S, p))

NextDeferred ==
  \/ AudioInit \/ AudioShutdown \/ LoadAudio \/ DecodeResolved \/ DecodeRejected
  \/ PlayRequest \/ Tick \/ Ended \/ PollFinished \/ SweepTimer

SpecDeferred == Init /\ [][NextDeferred]_vars

\* The instance lifetime engine: the deferred-play engine with stop on any
\* handle argument.
RequestInstanceArgs == 0..(MaxRequests + 1)

StopRequest == \E h \in RequestInstanceArgs : Idle /\ Becomes(stopAudio(S, h))

NextLifetime ==
  \/ AudioInit \/ AudioShutdown \/ LoadAudio \/ DecodeResolved
  \/ PlayRequest \/ StopRequest \/ Tick \/ Ended \/ SweepTimer

SpecLifetime == Init /\ [][NextLifetime]_vars

\* The bus engine: sessions, the bus table and its volume and mute controls.
\* Bus arguments range over a negative handle, 0, the master bus, every handle
\* create_bus can issue and one it cannot.
BusArgs == (0 - 1)..(FirstBusHandle + MaxBuses)

BusVolumes == {0, 2}

CanCreateBus == ~initialized \/ issued.bus.n < MaxBuses

CreateAudioBus == CanCreateBus /\ Becomes(createAudioBus(S))
DestroyAudioBus == \E b \in BusArgs : Idle /\ Becomes(destroyAudioBus(S, b))
SetAudioBusVolume ==
  \E b \in BusArgs, v \in BusVolumes : Idle /\ Becomes(setAudioBusVolume(S, b, v))
SetAudioBusMuted ==
  \E b \in BusArgs, m \in BOOLEAN : Idle /\ Becomes(setAudioBusMuted(S, b, m))

NextBus ==
  \/ AudioInit \/ AudioShutdown
  \/ CreateAudioBus \/ DestroyAudioBus \/ SetAudioBusVolume \/ SetAudioBusMuted

SpecBus == Init /\ [][NextBus]_vars

\* The routing engine: loading, the bus table, looping plays (immediate or
\* deferred) routed to any non-negative bus argument, pause, stop_all, the
\* completion hooks and the retry sweep.
BusPlayInputs ==
  [sourceHandle : SourceArgs, busHandle : BusArgs \ {0 - 1}, volume : Volumes,
   pan : Pans, pitch : Pitches, loop : {TRUE}, delay : Delays, isSpatial : {FALSE},
   posX : {0}, posY : {0}, minDistance : {1}, maxDistance : {2},
   hasCallback : {FALSE}]

BusInstanceArgs == 1..MaxBusPlays

CanPlayOnBus == ~initialized \/ issued.instance.n < MaxBusPlays

PlayOnBus == CanPlayOnBus /\ \E p \in BusPlayInputs : Becomes(playAudio(S, p))
PauseOnBus == \E h \in BusInstanceArgs : Idle /\ Becomes(pauseAudio(S, h))
StopAllOnBus == \E b \in BusArgs : Idle /\ Becomes(stopAllAudio(S, b))

NextRouting ==
  \/ AudioInit \/ LoadAudio \/ DecodeResolved \/ CreateAudioBus \/ DestroyAudioBus
  \/ PlayOnBus \/ PauseOnBus \/ StopAllOnBus \/ Ended \/ SweepTimer

SpecRouting == Init /\ [][NextRouting]_vars

\* The live-control engine: one session, loading, plays (immediate or deferred,
\* with a stereo panner, a spatial panner or neither), stop, the five setters
\* with any handle argument, the clock, completion hooks and the retry sweep.
ControlInstanceArgs == 0..(MaxControlPlays + 1)

ControlPlayInputs ==
  {p \in [sourceHandle : RequestSourceArgs, busHandle : {1}, volume : Volumes,
           pan : {0, 1}, pitch : Pitches, loop : {FALSE}, delay : Delays,
           isSpatial : BOOLEAN, posX : {0}, posY : {0}, minDistance : {1},
           maxDistance : {2}, hasCallback : {TRUE}] :
     p.isSpatial => p.pan = 0}

SetVolumes == {2}

SetPans == {0 - 1}

SetPitches == {2}

SetPositions == {<<1, 1>>}

CanPlayControl == ~initialized \/ issued.instance.n < MaxControlPlays

OneSession == contexts = 0 \/ initialized

\* A setter call that changes the state counts against the run's budget.
CanSet(t) == t = S \/ sets < MaxSets

Set(t) == CanSet(t) /\ Becomes(IF t = S THEN t ELSE [t EXCEPT !.sets = @ + 1])

PlayControl == CanPlayControl /\ \E p \in ControlPlayInputs : Becomes(playAudio(S, p))
StopControl == \E h \in ControlInstanceArgs : Idle /\ Becomes(stopAudio(S, h))
SetAudioVolume ==
  \E h \in ControlInstanceArgs, v \in SetVolumes : Idle /\ Set(setAudioVolume(S, h, v))
SetAudioPan ==
  \E h \in ControlInstanceArgs, v \in SetPans : Idle /\ Set(setAudioPan(S, h, v))
SetAudioPitch ==
  \E h \in ControlInstanceArgs, v \in SetPitches : Idle /\ Set(setAudioPitch(S, h, v))
SetAudioLooping ==
  \E h \in ControlInstanceArgs, v \in BOOLEAN : Idle /\ Set(setAudioLooping(S, h, v))
SetAudioPosition ==
  \E h \in ControlInstanceArgs, v \in SetPositions :
    Idle /\ Set(setAudioPosition(S, h, v[1], v[2]))

InitOnce == OneSession /\ AudioInit
LoadOnce == OneSession /\ LoadAudio

NextControl ==
  \/ InitOnce \/ LoadOnce \/ DecodeResolved
  \/ PlayControl \/ StopControl \/ Tick \/ Ended \/ SweepTimer
  \/ SetAudioVolume \/ SetAudioPan \/ SetAudioPitch \/ SetAudioLooping
  \/ SetAudioPosition

SpecControl == Init /\ [][NextControl]_vars

\* The rendering-chain engine: one session, loading, plays with every
\* combination of the spatial flag and the pan (immediate or deferred), pause
\* and resume, the pan and position setters, the clock, completion hooks and the
\* retry sweep.
ChainPlayInputs ==
  [sourceHandle : RequestSourceArgs, busHandle : {1}, volume : Volumes,
   pan : {0, 1}, pitch : Pitches, loop : BOOLEAN, delay : Delays,
   isSpatial : BOOLEAN, posX : {0}, posY : {0}, minDistance : {1},
   maxDistance : {2}, hasCallback : {FALSE}]

SetChainPans == {0, 0 - 1}

PlayChain == CanPlay /\ \E p \in ChainPlayInputs : Becomes(playAudio(S, p))
SetChainPan ==
  \E h \in InstanceArgs, v \in SetChainPans : Idle /\ Set(setAudioPan(S, h, v))
SetChainPosition ==
  \E h \in InstanceArgs, v \in SetPositions :
    Idle /\ Set(setAudioPosition(S, h, v[1], v[2]))

NextChain ==
  \/ InitOnce \/ LoadOnce \/ DecodeResolved \/ PlayChain \/ PauseAudio \/ ResumeAudio
  \/ SetChainPan \/ SetChainPosition \/ Tick \/ Ended \/ SweepTimer

SpecChain == Init /\ [][NextChain]_vars

\* The lifecycle engine: init that succeeds or fails, shutdown, loading, play
\* requests, create_bus, the clock, completion hooks and the retry sweep.
AudioInitFails ==
  \E at \in InitFailures : (initialized \/ at = "context" \/ CanInit)
                              /\ Becomes(initFails(S, at))

NextLifecycle ==
  \/ AudioInit \/ AudioInitFails \/ AudioShutdown \/ LoadAudio \/ DecodeResolved
  \/ PlayRequest \/ CreateAudioBus \/ Tick \/ Ended \/ SweepTimer

SpecLifecycle == Init /\ [][NextLifecycle]_vars

\* The pause engine: one session, loading, one play at a time with or without
\* a start delay, looping or not, pause and resume, the clock and the
\* completion hooks.
PauseDelays == {0, 1}

PausePlayInputs ==
  [sourceHandle : SourceArgs, busHandle : {1}, volume : Volumes, pan : Pans,
   pitch : Pitches, loop : BOOLEAN, delay : PauseDelays, isSpatial : {FALSE},
   posX : {0}, posY : {0}, minDistance : {1}, maxDistance : {2},
   hasCallback : {TRUE}]

PlayDelayed == CanPlay /\ \E p \in PausePlayInputs : Becomes(playAudio(S, p))

NextPause ==
  \/ InitOnce \/ LoadOnce \/ DecodeResolved \/ PlayDelayed \/ PauseAudio
  \/ ResumeAudio \/ Tick \/ Ended

SpecPause == Init /\ [][NextPause]_vars

\* The tuning engine: one session, loading, one play (looping or not, with or
\* without a completion callback), pause and resume, the volume, pitch and
\* looping setters, the clock and the completion hooks.
NextTuning ==
  \/ InitOnce \/ LoadOnce \/ DecodeResolved \/ PlayAudio \/ PauseAudio
  \/ ResumeAudio \/ SetAudioVolume \/ SetAudioPitch \/ SetAudioLooping
  \/ Tick \/ Ended

SpecTuning == Init /\ [][NextTuning]_vars

\* The music engine: sessions of the single-track variant, user gestures,
\* playMusic calls (looping or not) with their awaits, stopMusic, natural track
\* ends and the completion hooks.
CanInitMusic == musicInitialized \/ musicContexts < MaxMusicInits
CanPlayMusic == ~musicInitialized \/ musicIssued < MaxMusicCalls

MusicInit == CanInitMusic /\ \E st \in NewContextStates : MusicBecomes(musicInit(M, st))
MusicShutdown == Idle /\ MusicBecomes(musicShutdown(M))
MusicGesture == Idle /\ MusicBecomes(musicGesture(M))
PlayMusic == CanPlayMusic /\ \E loop \in BOOLEAN : MusicBecomes(playMusic(M, loop))
PlayMusicResumed ==
  \E call \in musicCalls : call.pc = "resume" /\ MusicBecomes(playMusicResumed(M, call))
PlayMusicDecoded ==
  \E call \in musicCalls : call.pc = "decode" /\ MusicBecomes(playMusicDecoded(M, call))
PlayMusicDecodeFailed ==
  \E call \in musicCalls :
    call.pc = "decode" /\ MusicBecomes(playMusicDecodeFailed(M, call))
StopMusic == Idle /\ MusicBecomes(stopMusic(M))
MusicTrackEnds == \E n \in DOMAIN musicNodes : Idle /\ MusicBecomes(musicTrackEnds(M, n))
MusicEnded ==
  \E n \in DOMAIN musicNodes :
    musicNodes[n].st = "ending" /\ MusicBecomes(musicOnended(M, n))

NextMusic ==
  \/ MusicInit \/ MusicShutdown \/ MusicGesture \/ PlayMusic \/ PlayMusicResumed
  \/ PlayMusicDecoded \/ PlayMusicDecodeFailed \/ StopMusic \/ MusicTrackEnds
  \/ MusicEnded

SpecMusic == Init /\ [][NextMusic]_vars

\* ------------------------------------------------------------------ claims
\* The handles of the parked requests.
PendingHandles == {pendingPlays[i].handle : i \in 1..Len(pendingPlays)}

\* The state after the host has dispatched every `ended` event now pending.
RECURSIVE Drain(_)
Drain(s) ==
  LET ending == {n \in DOMAIN s.nodes : s.nodes[n].st = "ending"} IN
  IF ending = {} THEN s
  ELSE Drain(onended(s, CHOOSE n \in ending : \A m \in ending : n <= m))

\* C1: an instance created with loop=false and has_callback=true that is never
\* explicitly stopped has its handle pushed to the finished-event queue exactly
\* once, however many pause/resume cycles it went through: whenever a
\* completion hook pushes a handle, no hook of the same instance object has
\* pushed it before.
C1_PushedExactlyOnce ==
  [][\A n \in DOMAIN nodes :
       (/\ nodes[n].st = "ending"
        /\ Becomes(onended(S, n))
        /\ Len(finishedCallbacks') = Len(finishedCallbacks) + 1)
         => objs[nodes[n].obj].pushes = 0]_vars

\* C2: the finished-event queue holds only handles pushed by natural completion:
\* every queued handle was pushed by the hook of a source node that stopped
\* because its buffer ended, never because stop, stop_all, pause or shutdown
\* stopped the node.
C2_OnlyNaturalCompletionQueued ==
  \A i \in 1..Len(finishedWhy) : finishedWhy[i] = "end"

\* C5: for every playing instance, get_time right after a resume equals
\* get_time right before the pause, whether the host ran its pending `ended`
\* events while the instance was paused or not.
C5_PauseResumeKeepsTime ==
  \A h \in DOMAIN instances :
    isAudioPlaying(S, h) =>
      \A paused \in {pauseAudio(S, h), Drain(pauseAudio(S, h))} :
        getAudioTime(resumeAudio(paused, h), h) = getAudioTime(S, h)

\* C3: on an initialized engine, play for a source that is not in the registry
\* returns a nonzero handle that no live instance and no parked request already
\* carries, and parks a snapshot of the request under it at the end of the
\* queue, so that the outcome of the request is the only thing that ever
\* happens under that handle.
C3_DeferredPlayReturnsFreshHandle ==
  initialized =>
    \A p \in RequestInputs :
      p.sourceHandle \notin DOMAIN sources =>
        LET handle == playAudioResult(S, p) IN
        /\ handle # 0
        /\ handle \notin DOMAIN instances
        /\ handle \notin PendingHandles
        /\ playAudio(S, p).pendingPlays =
             Append(pendingPlays, [handle |-> handle, retries |-> 0] @@ p)

\* C4: once the sweep has given up on a request, the handle of that request is
\* not a live instance and is not in the finished-event queue.
C4_AbandonedNeverLive ==
  \A h \in abandoned :
    /\ h \notin DOMAIN instances
    /\ \A i \in 1..Len(finishedCallbacks) : finishedCallbacks[i] # h

\* C6: stop_all(0) leaves the instance table empty; stop_all(b) with b nonzero
\* removes exactly the instances heard through bus b (those that fell back to
\* the master bus included, for b = 1) and leaves every other instance in the
\* table, its fields and its is_playing answer unchanged.
C6_StopAllRemovesAudibleBus ==
  \A b \in BusArgs :
    LET t == stopAllAudio(S, b) IN
    IF b = 0 THEN DOMAIN t.instances = {}
    ELSE /\ DOMAIN t.instances = {h \in DOMAIN instances : AudibleBus(S, h) # b}
         /\ \A h \in DOMAIN t.instances \cap DOMAIN instances :
              /\ t.objs[t.instances[h]] = objs[instances[h]]
              /\ isAudioPlaying(t, h) = isAudioPlaying(S, h)

\* C7: while the engine is initialized, bus 1 is in the bus table and bound to
\* the master gain node, whatever create_bus and destroy_bus calls were made;
\* destroy_bus with any argument keeps it so, and create_bus does not return 1.
C7_MasterBusStays ==
  initialized =>
    /\ MasterBus \in DOMAIN buses
    /\ buses[MasterBus].gainNode = masterGain
    /\ masterGain \in DOMAIN gains
    /\ createAudioBusResult(S) # MasterBus
    /\ \A b \in BusArgs :
         LET t == destroyAudioBus(S, b) IN
         /\ MasterBus \in DOMAIN t.buses
         /\ t.buses[MasterBus].gainNode = t.masterGain
         /\ t.masterGain \in DOMAIN t.gains

\* C7 is exercised: in this session buses were created and every one of them
\* was destroyed again.
C7_BusesCreatedAndDestroyed ==
  /\ initialized
  /\ nextBusHandle = FirstBusHandle + MaxBuses
  /\ DOMAIN buses = {MasterBus}

\* C8: for every bus b in the table with volume v, muting and then unmuting
\* leaves get_bus_volume(b) = v and the output gain v; the gain is 0 while
\* muted, stays 0 when set_bus_volume(b, w) is called while muted, and becomes
\* w (as does get_bus_volume) at the unmute.
C8_MuteUnmuteRestoresVolume ==
  \A b \in DOMAIN buses :
    LET v == getAudioBusVolume(S, b)
        m == setAudioBusMuted(S, b, TRUE)
        u == setAudioBusMuted(m, b, FALSE)
    IN /\ busGain(m, b) = 0
       /\ getAudioBusVolume(m, b) = v
       /\ getAudioBusVolume(u, b) = v
       /\ busGain(u, b) = v
       /\ ~isAudioBusMuted(u, b)
       /\ \A w \in BusVolumes \cup {1} :
            LET mw == setAudioBusVolume(m, b, w)
                uw == setAudioBusMuted(mw, b, FALSE)
            IN /\ busGain(mw, b) = 0
               /\ getAudioBusVolume(mw, b) = w
               /\ busGain(uw, b) = w
               /\ getAudioBusVolume(uw, b) = w

\* C8 is exercised: a created bus is muted with a volume that was set by
\* set_bus_volume, and its output gain is 0.
C8_MutedBusWithSetVolume ==
  \E b \in DOMAIN buses :
    /\ b # MasterBus
    /\ buses[b].muted
    /\ buses[b].volume = 2
    /\ busGain(S, b) = 0

\* C9: each of the five setters, called with a handle that is not in the
\* instance table (never issued, stopped, finished or still deferred), leaves
\* the whole engine state as it was: the instance table, every instance's
\* fields and nodes, the deferred queue and the finished-event queue.
C9_SettersIgnoreUnknownHandles ==
  \A h \in ControlInstanceArgs \ DOMAIN instances :
    /\ \A v \in SetVolumes \cup Volumes : setAudioVolume(S, h, v) = S
    /\ \A v \in SetPans \cup Pans : setAudioPan(S, h, v) = S
    /\ \A v \in SetPitches \cup Pitches : setAudioPitch(S, h, v) = S
    /\ \A v \in BOOLEAN : setAudioLooping(S, h, v) = S
    /\ \A v \in SetPositions : setAudioPosition(S, h, v[1], v[2]) = S

\* C9 is exercised: a setter has changed a live instance while another handle
\* is still deferred, so the argument set holds a live handle, a deferred one,
\* handle 0 and one that was never issued.
C9_LiveAndDeferred ==
  /\ sets > 0
  /\ DOMAIN instances # {}
  /\ PendingHandles \ DOMAIN instances # {}
  /\ ControlInstanceArgs \ (DOMAIN instances \cup PendingHandles \cup {0}) # {}

\* C11: a handle whose entry was deleted by stop, stop_all or natural completion
\* is not in the instance table again: is_playing and is_paused are false and
\* get_time is 0 for it, and stop, pause and resume on it change nothing.
C11_RetiredIsTerminal ==
  \A h \in retired :
    /\ h \notin DOMAIN instances
    /\ ~isAudioPlaying(S, h)
    /\ ~isAudioPaused(S, h)
    /\ getAudioTime(S, h) = 0
    /\ stopAudio(S, h) = S
    /\ pauseAudio(S, h) = S
    /\ resumeAudio(S, h) = S

\* C12: every instance in the table has the panner stage its creation
\* parameters call for and no other, and its current source node (the one
\* resume built, after a pause) is connected through that stage: a spatial
\* panner alone for spatial=true whatever the pan, a stereo panner alone for
\* spatial=false and pan # 0, neither for spatial=false and pan = 0.
C12_OnePannerStage ==
  \A h \in DOMAIN instances :
    LET instance == objs[instances[h]]
        via == nodes[instance.sourceNode].via
    IN IF instance.created.isSpatial
         THEN instance.spatialPanner # Null /\ instance.pannerNode = Null
              /\ via = "spatial"
       ELSE IF instance.created.pan # 0
         THEN instance.pannerNode # Null /\ instance.spatialPanner = Null
              /\ via = "stereo"
       ELSE instance.pannerNode = Null /\ instance.spatialPanner = Null
            /\ via = "gain"

\* C12 is exercised: an instance created spatial with a nonzero pan was paused
\* and resumed, and plays on its rebuilt source node.
C12_SpatialResumed ==
  \E h \in DOMAIN instances :
    /\ resumes > 0
    /\ objs[instances[h]].created.isSpatial
    /\ objs[instances[h]].created.pan # 0
    /\ ~objs[instances[h]].paused
    /\ nodes[objs[instances[h]].sourceNode].st = "active"

\* The output node the claim gives a request for bus busHandle made now.
C13_Expected(busHandle) ==
  IF busHandle > 1 /\ busHandle \in DOMAIN buses
    THEN buses[busHandle].gainNode
    ELSE masterGain

\* C13: the instance an immediate play creates, and the instance a sweep
\* creates for a parked request whose source is ready, is connected to the gain
\* node of the requested bus if that handle is greater than 1 and in the bus
\* table at that moment, and to the master gain node otherwise.
C13_OutputResolvedAtPlay ==
  initialized =>
    /\ \A p \in BusPlayInputs :
         p.sourceHandle \in DOMAIN sources =>
           LET t == playAudio(S, p)
               h == playAudioResult(S, p)
           IN /\ h \in DOMAIN t.instances
              /\ t.objs[t.instances[h]].outputNode = C13_Expected(p.busHandle)
    /\ LET t == processPendingPlays(S)
           ready == {i \in 1..Len(pendingPlays) :
                       pendingPlays[i].sourceHandle \in DOMAIN sources}
       IN \A i \in ready :
            (\A j \in ready : pendingPlays[j].handle = pendingPlays[i].handle => j <= i)
              => /\ pendingPlays[i].handle \in DOMAIN t.instances
                 /\ t.objs[t.instances[pendingPlays[i].handle]].outputNode
                      = C13_Expected(pendingPlays[i].busHandle)

\* C13 is exercised: one live instance plays into a created bus and another
\* one, which asked for a bus that is not in the table, plays into the master.
C13_RoutedAndFallenBack ==
  /\ \E h \in DOMAIN instances :
       /\ objs[instances[h]].busHandle \in DOMAIN buses \ {MasterBus}
       /\ objs[instances[h]].outputNode = buses[objs[instances[h]].busHandle].gainNode
  /\ \E h \in DOMAIN instances :
       /\ objs[instances[h]].busHandle > 1
       /\ objs[instances[h]].busHandle \notin DOMAIN buses
       /\ objs[instances[h]].outputNode = masterGain

\* What successive poll_finished calls return from state s on, up to the first 0.
RECURSIVE C14_PollAll(_)
C14_PollAll(s) ==
  IF pollFinishedCallbackResult(s) = 0 THEN <<>>
  ELSE <<pollFinishedCallbackResult(s)>> \o C14_PollAll(pollFinishedCallback(s))

\* C14: poll_finished returns 0 on an empty queue and changes nothing; on a
\* non-empty queue it returns the oldest event and removes that event and
\* nothing else, so successive polls return the queued events once each, oldest
\* first; and a completing instance is queued behind the events already there,
\* so the queue order is the order of completion.
C14_PollIsFifo ==
  /\ [](LET t == pollFinishedCallback(S)
            r == pollFinishedCallbackResult(S)
        IN /\ finishedCallbacks = <<>> => r = 0 /\ t = S
           /\ finishedCallbacks # <<>> =>
                /\ r = Head(finishedCallbacks)
                /\ t = [S EXCEPT !.finishedCallbacks = Tail(finishedCallbacks),
                                  !.finishedWhy = Tail(finishedWhy)]
           /\ C14_PollAll(S) = finishedCallbacks)
  /\ [][\/ finishedCallbacks' = finishedCallbacks
        \/ finishedCallbacks' = <<>>
        \/ finishedCallbacks # <<>> /\ finishedCallbacks' = Tail(finishedCallbacks)
        \/ \E h \in 1..issued.instance.max :
             finishedCallbacks' = Append(finishedCallbacks, h)]_vars

\* C14 is exercised: handle 1 completed, was queued and has been polled, and
\* handle 2, which completed after it, is the oldest event now.
C14_FirstPolledSecondQueued ==
  /\ finishedCallbacks = <<2>>
  /\ 1 \in retired
  /\ 1 \notin DOMAIN instances

\* C15: while the engine is not initialized, play and create_bus return 0 and
\* leave the whole engine state as it was: no handle counter moves, no
\* instance, bus or parked request appears, no timer is armed.
C15_UninitializedCallsDoNothing ==
  ~initialized =>
    /\ createAudioBusResult(S) = 0
    /\ createAudioBus(S) = S
    /\ \A p \in RequestInputs :
         /\ playAudioResult(S, p) = 0
         /\ playAudio(S, p) = S

\* C15 is exercised: an init has failed after it had put the context and bus 1
\* in place, in a session that follows a shutdown which left a parked request
\* and a decoded source behind.
C15_FailedInitAfterShutdown ==
  /\ ~initialized
  /\ audioContext # 0
  /\ MasterBus \in DOMAIN buses
  /\ pendingPlays # <<>>
  /\ sources # EmptyMap

\* C16: every entry of the instance table with stopped=false has at most one
\* source node that was started and not stopped: none while paused=true, and
\* exactly the node stored in the entry while paused=false.
C16_OneActiveSourceNode ==
  \A h \in DOMAIN instances :
    LET instance == objs[instances[h]]
        mine == {n \in DOMAIN nodes :
                   nodes[n].obj = instances[h] /\ StartedNotStopped(nodes[n])}
    IN ~instance.stopped =>
         /\ Cardinality(mine) <= 1
         /\ instance.paused => mine = {}
         /\ ~instance.paused => mine = {instance.sourceNode}

\* C17: pause on a playing instance keeps its entry under the same handle,
\* paused and not playing, with pause_offset = clock - start_time, and the entry
\* is still there and paused after the host has dispatched the events that were
\* pending (no resume or stop having been called); pause on a paused, stopped
\* or unknown handle changes nothing.
C17_PauseKeepsEntryPaused ==
  \A h \in InstanceArgs :
    IF isAudioPlaying(S, h)
      THEN LET t == pauseAudio(S, h)
               u == Drain(t)
           IN /\ h \in DOMAIN t.instances
              /\ t.instances[h] = instances[h]
              /\ isAudioPaused(t, h)
              /\ ~isAudioPlaying(t, h)
              /\ t.objs[t.instances[h]].pauseTime =
                   currentTime - objs[instances[h]].startTime
              /\ h \in DOMAIN u.instances
              /\ isAudioPaused(u, h)
      ELSE pauseAudio(S, h) = S

\* C18: resume on an entry with paused=true and stopped=false makes it a
\* playing instance: paused=false, a new source node that has been started,
\* start_time = clock - pause_offset, the same instance object behind the
\* handle; whether the source is still in the registry or not.  On any other
\* handle resume changes nothing.
C18_ResumeAlwaysPlays ==
  \A h \in InstanceArgs :
    IF isAudioPaused(S, h) /\ ~objs[instances[h]].stopped
      THEN LET t == resumeAudio(S, h)
               instance == t.objs[t.instances[h]]
           IN /\ isAudioPlaying(t, h)
              /\ t.instances[h] = instances[h]
              /\ instance.sourceNode # objs[instances[h]].sourceNode
              /\ t.nodes[instance.sourceNode].st # "unstarted"
              /\ instance.startTime = currentTime - objs[instances[h]].pauseTime
      ELSE resumeAudio(S, h) = S

\* C19: for every bus in the table, the master included, the output gain is 0
\* if the bus is muted and its volume otherwise; get_bus_volume returns the
\* volume of a bus in the table and 1 for any other handle.
C19_GainFollowsMuteAndVolume ==
  /\ \A b \in DOMAIN buses :
       /\ busGain(S, b) = IF isAudioBusMuted(S, b) THEN 0 ELSE buses[b].volume
       /\ getAudioBusVolume(S, b) = buses[b].volume
  /\ \A b \in BusArgs \ DOMAIN buses : getAudioBusVolume(S, b) = 1

\* C19 is exercised: the master bus is muted with a volume that was set, and a
\* created bus is unmuted with its volume set to 0.
C19_MutedMasterAndSilentBus ==
  /\ MasterBus \in DOMAIN buses
  /\ buses[MasterBus].muted
  /\ buses[MasterBus].volume = 2
  /\ \E b \in DOMAIN buses \ {MasterBus} : ~buses[b].muted /\ buses[b].volume = 0

\* C20: exactly one sweep timer is outstanding while the deferred queue is
\* non-empty and none while it is empty, whatever plays, sweeps, decode
\* completions, shutdowns and inits have happened.
C20_OneTimerIffPending ==
  timers = IF pendingPlays # <<>> THEN 1 ELSE 0

\* C20 is exercised: in a second session, after a shutdown and an init, a
\* request already swept once and a newer one wait in the queue together,
\* retried by the one timer.
C20_TwoSessionsOneTimer ==
  /\ contexts = 2
  /\ initialized
  /\ Len(pendingPlays) = 2
  /\ pendingPlays[1].retries > pendingPlays[2].retries
  /\ timers = 1

\* C10: every nonzero instance handle play returns is strictly greater than
\* every instance handle play has returned before.
C10_InstanceHandlesIncrease ==
  \A p \in RequestInputs :
    playAudioResult(S, p) # 0 => playAudioResult(S, p) > issued.instance.max

\* C21: the volume, pitch and looping setters store their value in the instance;
\* set on an instance that was paused (whether the host has run its pending
\* events since the pause or not), they are what the source node built by
\* resume and the gain stage carry; and a completion hook queues a finished
\* event exactly when its node's buffer ended with loop=false, on an instance
\* with a callback that was not stopped.
C21_SettingsSurviveRebuild ==
  /\ \A h \in DOMAIN instances :
       \A v \in SetVolumes \cup Volumes, r \in SetPitches \cup Pitches, l \in BOOLEAN :
         /\ setAudioVolume(S, h, v).objs[instances[h]].volume = v
         /\ setAudioVolume(S, h, v).objs[instances[h]].gainNode = v
         /\ setAudioPitch(S, h, r).objs[instances[h]].pitch = r
         /\ setAudioLooping(S, h, l).objs[instances[h]].loop = l
         /\ isAudioPlaying(S, h) =>
              \A paused \in {pauseAudio(S, h), Drain(pauseAudio(S, h))} :
                LET set == setAudioLooping(
                             setAudioPitch(setAudioVolume(paused, h, v), h, r), h, l)
                    t == resumeAudio(set, h)
                IN /\ h \in DOMAIN t.instances
                   /\ isAudioPlaying(t, h)
                   /\ t.objs[t.instances[h]].gainNode = v
                   /\ t.objs[t.instances[h]].sourceNode # objs[instances[h]].sourceNode
                   /\ t.nodes[t.objs[t.instances[h]].sourceNode].rate = r
                   /\ t.nodes[t.objs[t.instances[h]].sourceNode].loop = l
  /\ \A n \in DOMAIN nodes :
       nodes[n].st = "ending" =>
         (onended(S, n).finishedCallbacks # finishedCallbacks
            <=> /\ nodes[n].cause = "end"
                /\ objs[nodes[n].obj].hasCallback
                /\ ~objs[nodes[n].obj].stopped)

\* C22: for every instance in the table whose source is in the registry,
\* get_time is at least 0 and at most the duration of the source, whether the
\* instance is playing (its start delay elapsed or not), paused or resumed.
C22_TimeWithinDuration ==
  \A h \in DOMAIN instances :
    objs[instances[h]].sourceHandle \in DOMAIN sources =>
      /\ getAudioTime(S, h) >= 0
      /\ getAudioTime(S, h) <= getAudioDuration(S, objs[instances[h]].sourceHandle)

\* How many times handle h is in the finished-event queue of state s.
C23_Queued(s, h) ==
  Cardinality({i \in 1..Len(s.finishedCallbacks) : s.finishedCallbacks[i] = h})

\* The states stop(h) and the stop_all calls that match h lead to: stop_all(0)
\* and stop_all of the bus h was played on.
C23_Stopped(h) ==
  {stopAudio(S, h), stopAllAudio(S, 0)}
    \cup {stopAllAudio(S, objs[instances[x]].busHandle) : x \in {h} \cap DOMAIN instances}
    \cup {stopAllAudio(S, pendingPlays[i].busHandle) :
             i \in {j \in 1..Len(pendingPlays) : pendingPlays[j].handle = h}}

\* The states the engine can be in some time after state t: after the host has
\* dispatched the pending `ended` events, after a decode in flight has resolved,
\* and after the sweep timer, if one is armed, has fired.
C23_Later(t) ==
  LET decoded == {t} \cup {decodeResolved(t, d, dur) : d \in t.decoding, dur \in Durations}
      swept == decoded \cup {processPendingPlays(u) : u \in {x \in decoded : x.timers > 0}}
  IN swept \cup {Drain(u) : u \in swept}

\* C23: after stop(h) or a matching stop_all for a handle h that play returned,
\* live or still deferred, h is not playing and no finished event for h is
\* queued, right after the call and after the host has run its pending events,
\* a decode has resolved and the sweep has fired.
C23_StoppedStaysSilent ==
  \A h \in DOMAIN instances \cup PendingHandles :
    \A t \in C23_Stopped(h) :
      \A u \in C23_Later(t) :
        /\ ~isAudioPlaying(u, h)
        /\ C23_Queued(u, h) = C23_Queued(S, h)

\* The session a load_audio call opens in state s once its decode has resolved
\* and the sweep timer, if one is armed, has fired.
C24_NextSession(s) ==
  LET loading == jsLoadAudio(s)
      decoded == {decodeResolved(loading, d, dur) :
                    d \in loading.decoding \ s.decoding, dur \in Durations}
  IN {IF u.timers > 0 THEN processPendingPlays(u) ELSE u : u \in decoded}

\* C24: shutdown on an initialized engine leaves the source registry, the
\* instance table, the bus table, the finished-event queue and the deferred
\* play queue empty; so in the session a later load_audio opens, in which no
\* play is called, the sweep creates no instance and no finished event is
\* queued once the clock has run past the length of the buffer.
C24_ShutdownEmptiesEngine ==
  initialized =>
    LET t == shutdown(S) IN
    /\ t.sources = EmptyMap
    /\ t.instances = EmptyMap
    /\ t.buses = EmptyMap
    /\ t.finishedCallbacks = <<>>
    /\ t.pendingPlays = <<>>
    /\ \A u \in C24_NextSession(t) :
         /\ u.instances = EmptyMap
         /\ Drain(tick(tick(u))).finishedCallbacks = <<>>

\* The music nodes on which start() has succeeded and stop() was not called.
C25_Started(m) == {n \in DOMAIN m.nodes : StartedNotStopped(m.nodes[n])}

\* C25: at most one music source node is started and not stopped, and it is
\* the one currentMusicSource refers to; so stopMusic leaves no music node
\* started and not stopped, and isMusicPlaying is true while a music node plays
\* on a running context.
C25_OneMusicSource ==
  /\ Cardinality(C25_Started(M)) <= 1
  /\ C25_Started(M) \subseteq {currentMusicSource}
  /\ C25_Started(stopMusic(M)) = {}
  /\ \A n \in DOMAIN musicNodes :
       musicNodes[n].st = "active" /\ musicContextState = "running" => isMusicPlaying(M)

====
